---- MODULE Spec2Model ----
(***************************************************************************)
(* Model of aider/mdstream.py: class MarkdownStream, the streaming         *)
(* markdown renderer that commits "stable" rendered lines to the console   *)
(* above a rich Live window and repaints the trailing lines in the window. *)
(*                                                                         *)
(* Time is counted in units of 5 ms (1/200 s), so that 1.0/20 s is 10 and  *)
(* 2 s is 400 and render_time * 10 stays an integer.                       *)
(*                                                                         *)
(* The accumulated markdown text is a sequence of chunks:                  *)
(*   "p"  a paragraph of plain text,                                       *)
(*   "r"  a paragraph holding the reference-style link "[foo]",            *)
(*   "d"  the link reference definition "[foo]: /url".                     *)
(* A rendered line is a string.                                            *)
(***************************************************************************)
EXTENDS Integers, Sequences, FiniteSets, TLC

VARIABLES
    printed,    \* self.printed: lines already printed above the live window
    live,       \* self.live: "Live" (a rich Live object) or "None"
    started,    \* whether the Live display is running (Live.start / Live.stop)
    region,     \* the lines the Live display currently shows (its renderable)
    console,    \* everything printed to the console above the live area, in order
    when,       \* self.when: timestamp of the last accepted update
    min_delay,  \* self.min_delay: the adaptive delay
    measured,   \* render_time of the latest accepted update, -1 before the first
    clock,      \* the latest reading of time.time()
    text,       \* the text passed by the caller in the latest update call
    mono,       \* every call so far passed an extension of the text of the call before
    agree,      \* every render so far began with the printed record held before it
    finalized,  \* some update(text, final=True) call has been made
    last,       \* observation of the latest update call
    md,         \* an update call on a text with mermaid diagram blocks
    heap,       \* the class attributes and two instances of MarkdownStream
    olast       \* observation of the latest call on one of the two instances

vars == <<printed, live, started, region, console, when, min_delay, measured,
          clock, text, mono, agree, finalized, last, md, heap, olast>>

\* ---------------------------------------------------------------- bounds
\* longest accumulated text, in chunks
MaxText == 8

\* longest text with mermaid diagram blocks, in items
MaxDoc == 6

\* ------------------------------------------------------ program constants
\* live_window = 6
live_window == 6

\* min_delay = 1.0 / 20, in units of 5 ms
initial_min_delay == 10

\* the ceiling 2 of min(max(render_time * 10, 1.0 / 20), 2), in units of 5 ms
max_delay == 400

\* ------------------------------------------------------------ input sets
Chunks == {"p", "r", "d"}

\* the chunks that may follow the text t: the documents streamed hold at
\* most one use of the link reference and at most one definition of it
NextChunks(t) == {c \in Chunks : c = "p" \/ \A i \in 1..Len(t) : t[i] # c}

\* readings of time.time(), in units of 5 ms, taken in non-decreasing order;
\* all are far above the class default when = 0
Times == {1000, 1010, 1410}

\* measured render times time.time() - start, in units of 5 ms
RenderTimes == {0, 2, 50}

\* ------------------------------------------------------------- helpers
IsPrefix(s, t) == Len(s) <= Len(t) /\ SubSeq(t, 1, Len(s)) = s

Min(a, b) == IF a < b THEN a ELSE b

Max(a, b) == IF a > b THEN a ELSE b

\* Python's normalisation of a slice index against a list of length n
PyIndex(i, n) == IF i < 0 THEN Max(i + n, 0) ELSE Min(i, n)

\* Python's s[lo:hi] (0-based, negative indices count from the end)
PySlice(s, lo, hi) ==
    LET a == PyIndex(lo, Len(s))
        b == PyIndex(hi, Len(s))
    IN  IF a < b THEN SubSeq(s, a + 1, b) ELSE << >>

\* Python's s[lo:]
PySliceFrom(s, lo) == SubSeq(s, PyIndex(lo, Len(s)) + 1, Len(s))

\* the markdown text defines the link reference [foo]
HasDefinition(t) == \E i \in 1..Len(t) : t[i] = "d"

IsVisible(c) == c # "d"

\* _render_markdown_to_lines: one line for each paragraph, none for a link
\* reference definition; "[foo]" is rendered as a link once the text
\* defines it, and as literal text before
RenderLines(t) ==
    LET body == SelectSeq(t, IsVisible)
    IN  [i \in 1..Len(body) |->
            IF body[i] = "r"
            THEN (IF HasDefinition(t) THEN "link:foo" ELSE "[foo]")
            ELSE "plain"]

\* the delay without its floor
AdaptiveDelay_nofloor(render_time) == Min(render_time * 10, max_delay)

\* min(max(render_time * 10, 1.0 / 20), 2)
AdaptiveDelay(render_time) == Min(Max(render_time * 10, initial_min_delay), max_delay)

\* ---------------------------------------------------------------- Init
NoCall == [final |-> FALSE, outcome |-> "none", lo |-> 0, hi |-> 0]

\* no call on a text with diagram blocks
NoDoc == [state |-> "none"]

\* ------------------------------------------------- class and instances
Instances == {1, 2}

\* the class body: live = None (written 0), when = 0, min_delay = 1./20
ClassAttrs == [live |-> 0, when |-> 0, min_delay |-> initial_min_delay]

\* self.a: the instance attribute if the instance has one, else the class
\* attribute
GetAttr(h, o, a) ==
    IF a \in DOMAIN h.dict[o] THEN h.dict[o][a] ELSE h.cls[a]

\* the assignment written to the class attribute
SetAttr_class(h, o, a, v) == [h EXCEPT !.cls = (a :> v) @@ @]

\* self.a = v: written to the instance, the class attribute is left alone
SetAttr(h, o, a, v) == [h EXCEPT !.dict[o] = (a :> v) @@ @]

\* before any instance is constructed; lives[l] is the Live object that the
\* constructor of instance l makes, console the terminal above the live areas
NewHeap ==
    [cls     |-> ClassAttrs,
     dict    |-> [o \in Instances |-> << >>],
     lives   |-> [l \in Instances |-> [started |-> FALSE, region |-> << >>]],
     console |-> << >>,
     final   |-> [o \in Instances |-> FALSE],
     clock   |-> 0]

\* MarkdownStream(): self.printed = []; self.live = Live(Text(""), ...);
\* self.live.start()
Construct(h, o) ==
    LET h1 == SetAttr(h, o, "printed", << >>)
        h2 == SetAttr(h1, o, "live", o)
    IN  [h2 EXCEPT !.lives[o].started = TRUE]

NoCallOn == [op |-> "none", obj |-> 0, raised |-> FALSE, stop |-> "none"]

Init ==
    /\ heap = Construct(Construct(NewHeap, 1), 2)
    /\ olast = NoCallOn
    /\ md = NoDoc
    /\ printed = << >>
    /\ live = "Live"
    /\ started = TRUE
    /\ region = << >>
    /\ console = << >>
    /\ when = 0
    /\ min_delay = initial_min_delay
    /\ measured = -1
    /\ clock = 0
    /\ text = << >>
    /\ mono = TRUE
    /\ agree = TRUE
    /\ finalized = FALSE
    /\ last = NoCall

\* ------------------------------------------------------------- update
\* outcome: how the call ended; lo, hi: the call printed lines[lo:hi] to the
\* console above the live area (lo = hi when it printed nothing)
Observe(final, outcome, lo, hi) ==
    [final |-> final, outcome |-> outcome, lo |-> lo, hi |-> hi]

\* final calls throttled like the others
Throttle_always(final, now) == now - when < min_delay

\* the throttle test against the class default delay instead of the adaptive one
Throttle_default(final, now) == ~final /\ now - when < initial_min_delay

\* if not final and now - self.when < self.min_delay: return
Throttle(final, now) == ~final /\ now - when < min_delay

\* the live window kept back on the final call too
NumLines_nofinal(lines, final) == Len(lines) - live_window

\* the live window is not kept back
NumLines_all(lines, final) == Len(lines)

\* one line more than the live window is kept back
NumLines_short(lines, final) ==
    IF final THEN Len(lines) ELSE Len(lines) - live_window - 1

\* num_lines = len(lines); if not final: num_lines -= self.live_window
NumLines(lines, final) ==
    IF final THEN Len(lines) ELSE Len(lines) - live_window

\* the early return taken only when show is exactly 0
NothingToShow_zero(show) == show = 0

\* if show <= 0: return
NothingToShow(show) == show <= 0

\* the new lines taken up to the end of the render
NewLines_rest(lines, num_printed, num_lines) ==
    PySlice(lines, num_printed, Len(lines))

\* the stable lines printed again from the first one
NewLines_again(lines, num_printed, num_lines) == PySlice(lines, 0, num_lines)

\* show = lines[num_printed:num_lines], printed above the live area
NewLines(lines, num_printed, num_lines) == PySlice(lines, num_printed, num_lines)

\* the record cut at the old count instead of the new one
PrintedRecord_old(lines, num_lines) == PySlice(lines, 0, Len(printed))

\* the record takes every rendered line, the live window included
PrintedRecord_whole(lines, num_lines) == lines

\* self.printed = lines[:num_lines]
PrintedRecord(lines, num_lines) == PySlice(lines, 0, num_lines)

\* rest = lines[num_lines:], shown in the live window
LiveRest(lines, num_lines) == PySliceFrom(lines, num_lines)

\* MarkdownStream.update(t, final) called when time.time() reads now and
\* rendering takes render_time
update(t, final, now, render_time) ==
    LET lines       == RenderLines(t)
        num_lines   == NumLines(lines, final)
        num_printed == Len(printed)
        show        == num_lines - num_printed
        new_lines   == NewLines(lines, num_printed, num_lines)
    IN
    /\ UNCHANGED <<md, heap, olast>>
    /\ clock' = now
    /\ text' = t
    /\ mono' = (mono /\ IsPrefix(text, t))
    /\ finalized' = (finalized \/ final)
    /\ IF Throttle(final, now)
       THEN \* throttled
            /\ last' = Observe(final, "throttled", 0, 0)
            /\ UNCHANGED <<printed, live, started, region, console, when,
                           min_delay, measured, agree>>
       ELSE /\ when' = now
            /\ measured' = render_time
            /\ min_delay' = AdaptiveDelay(render_time)
            /\ agree' = (agree /\ IsPrefix(printed, lines))
            /\ IF (final \/ num_lines > 0) /\ NothingToShow(show)
               THEN \* no new lines to show above the live window: return
                    /\ last' = Observe(final, "skipped", 0, 0)
                    /\ UNCHANGED <<printed, live, started, region, console>>
               ELSE IF live = "None"
               THEN \* self.live.console / self.live.update on None
                    /\ last' = Observe(final, "raised", 0, 0)
                    /\ UNCHANGED <<printed, live, started, region, console>>
               ELSE /\ IF final \/ num_lines > 0
                       THEN /\ console' = console \o new_lines
                            /\ printed' = PrintedRecord(lines, num_lines)
                       ELSE UNCHANGED <<console, printed>>
                    /\ IF final
                       THEN /\ region' = << >>
                            /\ started' = FALSE
                            /\ live' = "None"
                            /\ last' = Observe(final, "closed", num_printed, num_lines)
                       ELSE /\ region' = LiveRest(lines, num_lines)
                            /\ last' = IF num_lines > 0
                                       THEN Observe(final, "repainted", num_printed, num_lines)
                                       ELSE Observe(final, "repainted", 0, 0)
                            /\ UNCHANGED <<live, started>>

\* ---------------------------------------------------------- the callers
\* the streaming loop: pm.update(_text[:i]) with one more chunk of text
Stream ==
    /\ mono
    /\ Len(text) < MaxText
    /\ \E c \in NextChunks(text), now \in Times, rt \in RenderTimes :
          /\ now >= clock
          /\ update(Append(text, c), FALSE, now, rt)

\* update called again with the text unchanged
Resend ==
    \E now \in Times, rt \in RenderTimes :
          /\ now >= clock
          /\ update(text, FALSE, now, rt)

\* a caller that breaks monotonic growth: a shorter text; the stream does
\* not grow again afterwards
Rewind ==
    /\ text # << >>
    /\ \E n \in 0..(Len(text) - 1), now \in Times, rt \in RenderTimes :
          /\ now >= clock
          /\ update(SubSeq(text, 1, n), FALSE, now, rt)

\* pm.update(_text, final=True) on the text streamed so far
Finish ==
    \E now \in Times, rt \in RenderTimes :
          /\ now >= clock
          /\ update(text, TRUE, now, rt)

\* pm.update(_text, final=True) on the text with a last chunk added
FinishMore ==
    /\ mono
    /\ Len(text) < MaxText
    /\ \E c \in NextChunks(text), now \in Times, rt \in RenderTimes :
          /\ now >= clock
          /\ update(Append(text, c), TRUE, now, rt)

Next == Stream \/ Resend \/ Rewind \/ Finish \/ FinishMore

Spec == Init /\ [][Next]_vars

\* ======================================================================
\* Mermaid diagrams: update on a text with ```mermaid blocks
\* ======================================================================
\* A text is a sequence of items: "O" is the opening fence "```mermaid\n",
\* "C" a closing fence "\n```" and "a" any other character. The text
\* inserted after a block is the three parts of the f-string
\* "\n\n[View diagram]({link})\n", the link carrying the block's body.
Item(k) == [kind |-> k, body |-> << >>]

Kinds == {"O", "C", "a"}

Docs == UNION {[1..n -> {Item(k) : k \in Kinds}] : n \in 0..MaxDoc}

\* _generate_mermaid_link(mermaid_code): a link that encodes the body
GenerateMermaidLink(body) ==
    [kind |-> "link", body |-> [i \in 1..Len(body) |-> body[i].kind]]

\* f"\n\n[View diagram]({link})\n"
LinkText(body) == <<Item("pre"), GenerateMermaidLink(body), Item("post")>>

\* the positions (1-based) of item k in t from position i on
Positions(t, k, i) == {j \in i..Len(t) : t[j].kind = k}

SetMin(S) == CHOOSE x \in S : \A y \in S : x <= y

\* self.mermaid_pattern.finditer(text): the non-overlapping matches of
\* ```mermaid\n(.*?)\n``` from position i on, leftmost first, each with the
\* nearest closing fence; a match is its group(1) and its end() offset
RECURSIVE FindIter(_, _)
FindIter(t, i) ==
    LET opens == {j \in Positions(t, "O", i) : Positions(t, "C", j + 1) # {}}
    IN  IF opens = {} THEN << >>
        ELSE LET o == SetMin(opens)
                 c == SetMin(Positions(t, "C", o + 1))
             IN  <<[group1 |-> SubSeq(t, o + 1, c - 1), end |-> c]>>
                    \o FindIter(t, c + 1)

\* the loop of lines 172-181 from the k-th match on: each link is inserted
\* into processed_text at match.end(), an offset into the original text
RECURSIVE InsertLinks(_, _, _)
InsertLinks(processed_text, matches, k) ==
    IF k > Len(matches) THEN processed_text
    ELSE LET diagram_end == matches[k].end
         IN  InsertLinks(
                 PySlice(processed_text, 0, diagram_end)
                    \o LinkText(matches[k].group1)
                    \o PySliceFrom(processed_text, diagram_end),
                 matches, k + 1)

\* processed_text after the loop
ProcessedText(t) == InsertLinks(t, FindIter(t, 1), 1)

\* _render_markdown_to_lines on a text of items: a line for each item
RenderDoc(t) == [i \in 1..Len(t) |-> [line |-> t[i]]]

\* the text of which update renders the lines:
\* lines = self._render_markdown_to_lines(text)
RenderedText(t) == t

\* update(t, final) on a fresh instance, for a text with diagram blocks
UpdateDoc(t, final) ==
    LET lines     == RenderDoc(RenderedText(t))
        num_lines == NumLines(lines, final)
        commits   == (final \/ num_lines > 0) /\ ~NothingToShow(num_lines)
    IN  [state     |-> "updated",
         text      |-> t,
         final     |-> final,
         processed |-> ProcessedText(t),
         lines     |-> lines,
         console   |-> IF commits THEN NewLines(lines, 0, num_lines) ELSE << >>,
         region    |-> IF final \/ (num_lines > 0 /\ ~commits) THEN << >>
                       ELSE LiveRest(lines, num_lines)]

\* the caller passes a text with diagram blocks
CallDoc ==
    /\ md.state = "none"
    /\ \E t \in Docs : md' = [state |-> "called", text |-> t]
    /\ UNCHANGED <<printed, live, started, region, console, when, min_delay,
                   measured, clock, text, mono, agree, finalized, last,
                   heap, olast>>

\* a non-final update on that text
StreamDoc ==
    /\ md.state = "called"
    /\ md' = UpdateDoc(md.text, FALSE)
    /\ UNCHANGED <<printed, live, started, region, console, when, min_delay,
                   measured, clock, text, mono, agree, finalized, last,
                   heap, olast>>

\* a final update on that text
FinishDoc ==
    /\ md.state = "called"
    /\ md' = UpdateDoc(md.text, TRUE)
    /\ UNCHANGED <<printed, live, started, region, console, when, min_delay,
                   measured, clock, text, mono, agree, finalized, last,
                   heap, olast>>

NextDoc == CallDoc \/ StreamDoc \/ FinishDoc

SpecDoc == Init /\ [][NextDoc]_vars

\* ======================================================================
\* Two instances: update and __del__ on one of them
\* ======================================================================
\* the texts passed to the two instances: paragraphs only
ObjTexts == {[i \in 1..n |-> "p"] : n \in {0, live_window + 1, live_window + 2}}

ObjTimes == {1000, 1010}

ObjRenderTimes == {0, 2}

ObserveOn(op, o, raised, stop) ==
    [op |-> op, obj |-> o, raised |-> raised, stop |-> stop]

\* update(t, final) on instance o: the steps of update with every
\* attribute read and written through self
UpdateOf(o, t, final, now, render_time) ==
    LET h0          == [heap EXCEPT !.clock = now, !.final[o] = @ \/ final]
        throttled   == ~final /\ now - GetAttr(heap, o, "when")
                                    < GetAttr(heap, o, "min_delay")
        h1          == SetAttr(SetAttr(h0, o, "when", now),
                               o, "min_delay", AdaptiveDelay(render_time))
        lines       == RenderLines(t)
        num_lines   == NumLines(lines, final)
        num_printed == Len(GetAttr(heap, o, "printed"))
        show        == num_lines - num_printed
        l           == GetAttr(heap, o, "live")
        h2          == IF final \/ num_lines > 0
                       THEN SetAttr([h1 EXCEPT !.console =
                                        @ \o NewLines(lines, num_printed, num_lines)],
                                    o, "printed", PrintedRecord(lines, num_lines))
                       ELSE h1
        h3          == IF final
                       THEN SetAttr([h2 EXCEPT !.lives[l] =
                                        [started |-> FALSE, region |-> << >>]],
                                    o, "live", 0)
                       ELSE [h2 EXCEPT !.lives[l].region = LiveRest(lines, num_lines)]
    IN  IF throttled
        THEN /\ heap' = h0
             /\ olast' = ObserveOn("update", o, FALSE, "none")
        ELSE IF (final \/ num_lines > 0) /\ NothingToShow(show)
        THEN /\ heap' = h1
             /\ olast' = ObserveOn("update", o, FALSE, "none")
        ELSE IF l = 0
        THEN /\ heap' = h1
             /\ olast' = ObserveOn("update", o, TRUE, "none")
        ELSE /\ heap' = h3
             /\ olast' = ObserveOn("update", o, FALSE,
                                   IF final THEN "stopped" ELSE "none")

\* Live.stop() on a started Live ends the display and leaves the last frame
\* on the screen; on a stopped one it changes nothing
Stop(h, l) == [h EXCEPT !.lives[l].started = FALSE]

\* __del__ on instance o; when fails, self.live.stop() raises after the
\* display has ended and the except clause discards the exception
__del__(o, fails) ==
    LET l == GetAttr(heap, o, "live")
    IN  IF l # 0
        THEN /\ heap' = Stop(heap, l)
             /\ olast' = ObserveOn("del", o, FALSE,
                                   IF fails THEN "failed" ELSE "stopped")
        ELSE /\ heap' = heap
             /\ olast' = ObserveOn("del", o, FALSE, "none")

\* a caller updates one of the instances
UpdateInstance ==
    /\ \E o \in Instances, t \in ObjTexts, final \in BOOLEAN,
          now \in ObjTimes, rt \in ObjRenderTimes :
          /\ now >= heap.clock
          /\ UpdateOf(o, t, final, now, rt)
    /\ UNCHANGED <<printed, live, started, region, console, when, min_delay,
                   measured, clock, text, mono, agree, finalized, last, md>>

\* one of the instances is torn down, by the collector or by hand
Teardown ==
    /\ \E o \in Instances, fails \in BOOLEAN : __del__(o, fails)
    /\ UNCHANGED <<printed, live, started, region, console, when, min_delay,
                   measured, clock, text, mono, agree, finalized, last, md>>

NextInstances == UpdateInstance \/ Teardown

SpecInstances == Init /\ [][NextInstances]_vars

\* ======================================================================
\* Properties
\* ======================================================================
\* the line sequence rendered for the text of the latest call
Lines == RenderLines(text)

\* the latest call passed the throttle test
Accepted == last.outcome \in {"skipped", "raised", "closed", "repainted"}

\* the latest call passed the throttle test and returned without raising
Returned == last.outcome \in {"skipped", "closed", "repainted"}

\* ---------------------------------------------------------------- C1
\* C1 as stated: in a run of calls with monotonically growing text, when the
\* first final call is made, everything printed above the live area is a
\* prefix of the lines rendered for the complete text.
C1_AsStated ==
    [][(~finalized /\ finalized' /\ mono')
          => IsPrefix(console', RenderLines(text'))]_vars

\* C1 amended: the console output only grows by appending, and in a run of
\* calls with monotonically growing text in which every render starts with
\* the printed record held before it, at the first final call everything
\* printed above the live area is a prefix of the lines rendered for the
\* complete text.
C1_MonotonicCommitment ==
    [][/\ IsPrefix(console, console')
       /\ (~finalized /\ finalized' /\ mono' /\ agree')
             => IsPrefix(console', RenderLines(text'))]_vars

C1_Witness ==
    /\ mono /\ agree
    /\ last.final /\ last.outcome = "closed"
    /\ 0 < last.lo /\ last.lo < last.hi
    /\ console = Lines

\* ---------------------------------------------------------------- C2
\* C2: once a final call has been made, no later call prints above the live
\* area or repaints the live region.
C2_FinalizationTerminal ==
    [][finalized => /\ console' = console
                    /\ region' = region
                    /\ last'.outcome \notin {"closed", "repainted"}]_vars

\* ---------------------------------------------------------------- C3
\* C3: every final call ends with the live region empty, the display
\* stopped and the live handle released.
C3_FinalCloses ==
    last.final => (live = "None" /\ ~started /\ region = << >>)

\* ---------------------------------------------------------------- C4
\* C4: a non-final call made when the time since the last accepted update
\* is less than the adaptive delay changes nothing: the printed record, the
\* delay, the timestamp, the live handle and display, the console output and
\* the live region stay as they were, and the region is not repainted.
C4_ThrottleNoOp ==
    [][(~last'.final /\ clock' - when < min_delay)
          => /\ UNCHANGED <<printed, min_delay, when, live, started,
                            console, region>>
             /\ last'.outcome = "throttled"]_vars

C4_Witness ==
    /\ ~last.final /\ last.outcome = "throttled"
    /\ clock - when < min_delay
    /\ live = "Live"
    /\ min_delay = max_delay
    /\ printed # << >>

\* ---------------------------------------------------------------- C5
\* C5: the length of the printed record never decreases from one call to
\* the next.
C5_NoRegression == [][Len(printed') >= Len(printed)]_vars

C5_Witness ==
    /\ last.outcome = "skipped"
    /\ NumLines(Lines, last.final) < Len(printed)

\* ---------------------------------------------------------------- C6
\* C6 as stated: after every accepted update the printed record is a prefix
\* of the lines rendered by that call, of length at most num_lines. It is
\* stated here for the calls up to the first final one, with a negative
\* num_lines counted as 0.
C6_AsStated ==
    [][(~finalized
           /\ last'.outcome \in {"skipped", "raised", "closed", "repainted"})
          => /\ IsPrefix(printed', RenderLines(text'))
             /\ Len(printed')
                   <= Max(NumLines(RenderLines(text'), last'.final), 0)]_vars

\* C6 amended: an accepted update that prints lines above the live area
\* leaves the printed record equal to the first num_lines lines rendered by
\* that call; an accepted update that prints nothing leaves the printed
\* record as it was.
C6_PrintedRecord ==
    [][last'.outcome \in {"skipped", "raised", "closed", "repainted"}
          => IF console' # console
             THEN /\ IsPrefix(printed', RenderLines(text'))
                  /\ Len(printed') = NumLines(RenderLines(text'), last'.final)
             ELSE printed' = printed]_vars

C6_Witness ==
    /\ last.outcome = "repainted"
    /\ last.lo < last.hi
    /\ printed = SubSeq(Lines, 1, Len(Lines) - live_window)
    /\ printed # << >>

\* ---------------------------------------------------------------- C7
\* C7: an accepted non-final update prints above the live area only lines
\* of its render with index below len(L) - live_window, and none when
\* len(L) <= live_window.
C7_WindowHeldBack ==
    [][(last'.outcome \in {"skipped", "raised", "closed", "repainted"}
           /\ ~last'.final)
          => LET L == RenderLines(text')
             IN  /\ console' = console \o PySlice(L, last'.lo, last'.hi)
                 /\ 0 <= last'.lo
                 /\ last'.lo < last'.hi => last'.hi <= Len(L) - live_window
                 /\ Len(L) <= live_window => console' = console]_vars

C7_Witness ==
    /\ ~last.final /\ last.outcome = "repainted"
    /\ last.lo < last.hi
    /\ last.hi = Len(Lines) - live_window
    /\ Len(console) = Len(Lines) - live_window

\* ---------------------------------------------------------------- C8
\* C8 as stated: after an accepted non-final update, len(L) - len(printed)
\* is at least 0, and at most live_window when len(L) exceeds live_window.
\* It is stated here for instances on which no final call has been made.
C8_AsStated ==
    (Accepted /\ ~last.final /\ ~finalized)
       => /\ Len(Lines) - Len(printed) >= 0
          /\ Len(Lines) > live_window
                => Len(Lines) - Len(printed) <= live_window

\* C8 amended: after an accepted non-final update that returns without
\* raising, len(L) - len(printed) is at most live_window when len(L)
\* exceeds live_window; it is at least 0 when the text has only grown from
\* call to call (so that no render is shorter than an earlier one).
C8_LiveWindowBound ==
    (Returned /\ ~last.final)
       => /\ Len(Lines) > live_window
                => Len(Lines) - Len(printed) <= live_window
          /\ mono => Len(Lines) - Len(printed) >= 0

C8_Witness ==
    /\ ~last.final /\ last.outcome = "repainted"
    /\ mono
    /\ Len(Lines) > live_window
    /\ Len(Lines) - Len(printed) = live_window

\* ---------------------------------------------------------------- C9
\* C9: every accepted non-final update repaints the live region with the
\* lines L[stable_count:] of its render (the slice as Python takes it),
\* whether or not it printed new stable lines. It is stated here for
\* instances on which no final call has been made.
C9_AlwaysRepaint ==
    (Accepted /\ ~last.final /\ ~finalized)
       => /\ last.outcome = "repainted"
          /\ region = PySliceFrom(Lines, Len(Lines) - live_window)

\* ---------------------------------------------------------------- C10
\* C10: an accepted non-final update whose render has at most live_window
\* lines prints nothing, leaves the printed record as it was and repaints
\* the live region with all the rendered lines. It is stated here for
\* instances on which no final call has been made.
C10_ShortRender ==
    [][(last'.outcome \in {"skipped", "raised", "closed", "repainted"}
           /\ ~last'.final /\ ~finalized'
           /\ Len(RenderLines(text')) <= live_window)
          => /\ console' = console
             /\ printed' = printed
             /\ last'.outcome = "repainted"
             /\ region' = RenderLines(text')]_vars

\* ---------------------------------------------------------------- C11
\* C11: after every accepted update the adaptive delay is
\* clamp(10 * render_time, 1/20 s, 2 s); in every state it lies between
\* 1/20 s and 2 s; and it changes only on accepted updates.
C11_AdaptiveDelay ==
    [][/\ (last'.outcome \in {"skipped", "raised", "closed", "repainted"})
             => min_delay' = IF measured' * 10 < 10 THEN 10
                             ELSE IF measured' * 10 > 400 THEN 400
                             ELSE measured' * 10
       /\ 10 <= min_delay' /\ min_delay' <= 400
       /\ 10 <= min_delay /\ min_delay <= 400
       /\ min_delay' # min_delay
             => last'.outcome \in {"skipped", "raised", "closed", "repainted"}
      ]_vars

\* accepted updates have left the delay at the floor, strictly between the
\* bounds and at the ceiling
C11_Witness ==
    /\ Accepted
    /\ measured = 2
    /\ min_delay = 20
    /\ printed # << >>

\* ---------------------------------------------------------------- C15
\* C15: an accepted update that returns, with render L and stable_count
\* (len(L) if final, else len(L) - live_window): if stable_count -
\* len(printed) <= 0 it prints nothing and leaves printed as it was;
\* otherwise it appends exactly L[len(printed) .. stable_count-1] to the
\* console and printed becomes L[:stable_count].
C15_CommitStep ==
    [][(last'.outcome \in {"skipped", "closed", "repainted"})
          => LET L  == RenderLines(text')
                 sc == IF last'.final THEN Len(L) ELSE Len(L) - live_window
             IN  IF sc - Len(printed) <= 0
                 THEN console' = console /\ printed' = printed
                 ELSE /\ console' = console \o SubSeq(L, Len(printed) + 1, sc)
                      /\ printed' = SubSeq(L, 1, sc)]_vars

C15_Witness ==
    /\ last.outcome = "repainted"
    /\ last.lo = 1 /\ last.hi = 2
    /\ Len(printed) = 2
    /\ Len(console) = 2

\* ---------------------------------------------------------------- C17
\* C17: a final update is never throttled, whatever the time elapsed and
\* the adaptive delay: it is timestamped and rendered; and the first update
\* call on a fresh instance is always accepted.
C17_FinalNeverThrottled ==
    [][/\ last'.final => /\ last'.outcome # "throttled"
                         /\ when' = clock'
       /\ last.outcome = "none" => /\ last'.outcome # "throttled"
                                   /\ when' = clock'
      ]_vars

\* a final call accepted with no time elapsed since the accepted first call:
\* the text has two chunks, so there were two calls, both at the first
\* clock reading, and the delay was at its ceiling
C17_Witness ==
    /\ last.final /\ last.outcome = "closed"
    /\ Len(text) = 2
    /\ clock = 1000 /\ when = 1000
    /\ region = << >>
    /\ Len(printed) = 2

\* ---------------------------------------------------------------- C18
\* C18: the number of lines printed to the console equals len(printed) in
\* every state, and each commit writes exactly the positions from the
\* previous len(printed) up to the new len(printed).
C18_CommittedOnce ==
    [][/\ Len(console) = Len(printed)
       /\ Len(console') = Len(printed')
       /\ console' # console
             => /\ last'.lo = Len(printed)
                /\ last'.hi = Len(printed')
                /\ last'.lo < last'.hi
                /\ Len(console') - Len(console) = last'.hi - last'.lo
                /\ IsPrefix(console, console')]_vars

C18_Witness ==
    /\ last.outcome = "closed"
    /\ last.lo = 2
    /\ last.hi = Len(Lines)
    /\ Len(console) = Len(Lines)
    /\ Len(printed) = Len(Lines)

\* ---------------------------------------------------------------- C19
\* C19: when every render agreed with the printed record held before it, a
\* final update on an open instance leaves the console output and the
\* printed record both equal to the lines rendered by that call.
C19_Completeness ==
    [][(last'.final /\ live = "Live" /\ agree')
          => /\ console' = RenderLines(text')
             /\ printed' = RenderLines(text')]_vars

C19_Witness ==
    /\ last.final /\ last.outcome = "closed"
    /\ agree
    /\ HasDefinition(text)
    /\ last.lo = 1
    /\ console = Lines
    /\ Len(Lines) = live_window + 1

\* ---------------------------------------------------------------- C13
\* the original text with the link text inserted right after the closing
\* fence of each block, from the last block back to the k-th
RECURSIVE Augmented(_, _, _)
Augmented(t, matches, k) ==
    IF k > Len(matches) THEN t
    ELSE LET rest == Augmented(t, matches, k + 1)
         IN  SubSeq(rest, 1, matches[k].end)
                \o LinkText(matches[k].group1)
                \o SubSeq(rest, matches[k].end + 1, Len(rest))

C14_RendersProcessedText ==
    (md.state = "updated" /\ FindIter(md.text, 1) # << >>)
       => /\ md.lines = RenderDoc(md.processed)
          /\ md.console \o md.region = RenderDoc(md.processed)

\* ---------------------------------------------------------------- C12
\* C12: teardown never raises, even when stopping the live display fails;
\* a teardown right after a teardown of the same instance changes nothing;
\* and on an instance that has had its final update teardown does nothing:
\* it changes nothing and does not stop a display.
C12_Teardown ==
    [][olast'.op = "del"
          => /\ ~olast'.raised
             /\ (olast.op = "del" /\ olast.obj = olast'.obj) => heap' = heap
             /\ heap.final[olast'.obj]
                   => (heap' = heap /\ olast'.stop = "none")]_vars

\* ---------------------------------------------------------------- C16
\* what C16 names of an instance: printed record, adaptive delay,
\* last-accepted timestamp, live handle and whether its display runs
View(h, o) ==
    <<GetAttr(h, o, "printed"), GetAttr(h, o, "min_delay"),
      GetAttr(h, o, "when"), GetAttr(h, o, "live"), h.lives[o].started>>

\* C16: an update or a teardown on one instance leaves the other's printed
\* record, adaptive delay, last-accepted timestamp and open/closed state
\* unchanged, and the class-level defaults with them.
C16_Independent ==
    [][/\ \A o \in Instances :
             olast'.obj # o => View(heap', o) = View(heap, o)
       /\ heap'.cls = ClassAttrs]_vars

C16_Witness ==
    /\ olast.op = "update" /\ olast.obj = 1
    /\ View(heap, 1) = <<RenderLines([i \in 1..(live_window + 2) |-> "p"]),
                         20, 1010, 0, FALSE>>
    /\ View(heap, 2) = <<RenderLines([i \in 1..1 |-> "p"]), 10, 1000, 2, TRUE>>

====
